---- MODULE Spec2Model ----
(***************************************************************************)
(* Poster cache (fetch_poster) and similarity ranking (recommend) of       *)
(* recommender.py.                                                         *)
(*                                                                         *)
(* The poster cache directory is a map from file path to file state; the   *)
(* remote provider's answers and the file system's refusals are inputs of  *)
(* the steps that meet them.  A call of fetch_poster is a sequence of      *)
(* steps, one per file-system or network operation, so that calls of       *)
(* different threads can interleave.                                       *)
(***************************************************************************)
EXTENDS Integers, Sequences, FiniteSets, TLC

(***************************************************************************)
(* Python values a caller can pass as movie_id: an int, a str (a sequence  *)
(* of characters) or None.  All three fields are always present so that    *)
(* two ids can be compared.                                                *)
(***************************************************************************)
PyInt(n) == [t |-> "int", n |-> n, s |-> <<>>]

PyStr(s) == [t |-> "str", n |-> 0, s |-> s]

PyNone == [t |-> "none", n |-> 0, s |-> <<>>]

\* Largest magnitude of an int id, and of the digits of a str id.
MaxId == 1

DigitChars == <<"0", "1", "2", "3", "4", "5", "6", "7", "8", "9">>

DigitValue(c) == CHOOSE d \in 0..9 : DigitChars[d + 1] = c

IsDigit(c) == \E d \in 0..9 : DigitChars[d + 1] = c

RECURSIVE Digits(_)
\* str(n) for n >= 0: the decimal digits, most significant first.
Digits(n) == IF n < 10 THEN <<DigitChars[n + 1]>>
             ELSE Digits(n \div 10) \o <<DigitChars[(n % 10) + 1]>>

\* f"{movie_id}": the text the paths are built from.
Format(id) ==
    CASE id.t = "int" -> IF id.n < 0 THEN <<"-">> \o Digits(-id.n) ELSE Digits(id.n)
      [] id.t = "str" -> id.s
      [] OTHER -> <<"N", "o", "n", "e">>

RECURSIVE DigitsValue(_, _)
\* The value of a sequence of decimal digits, acc being the value read so far.
DigitsValue(s, acc) ==
    IF s = <<>> THEN acc
    ELSE DigitsValue(Tail(s), acc * 10 + DigitValue(Head(s)))

\* int(s) for a str: an optional sign and at least one digit, else ValueError.
ParseInt(s) ==
    LET signed == s # <<>> /\ Head(s) \in {"-", "+"}
        body == IF signed THEN Tail(s) ELSE s
        ok == body # <<>> /\ \A i \in 1..Len(body) : IsDigit(body[i])
    IN  [ok |-> ok,
         val |-> IF ~ok THEN 0
                 ELSE IF signed /\ Head(s) = "-" THEN -DigitsValue(body, 0)
                 ELSE DigitsValue(body, 0)]

\* int(movie_id): TypeError for None, ValueError for a str that is no number.
IntOf(id) ==
    CASE id.t = "int" -> [ok |-> TRUE, val |-> id.n]
      [] id.t = "str" -> ParseInt(id.s)
      [] OTHER -> [ok |-> FALSE, val |-> 0]

\* A validity test that lets zero through.
IsValidMovieIdNonNegative(movie_id) ==
    LET mid == IntOf(movie_id) IN mid.ok /\ mid.val >= 0

_is_valid_movie_id(movie_id) ==
    LET mid == IntOf(movie_id) IN mid.ok /\ mid.val > 0

FAIL_MARKER_EXT == ".fail"

_poster_path(movie_id) == Format(movie_id) \o <<".jpg">>

_fail_marker_path(movie_id) == Format(movie_id) \o <<FAIL_MARKER_EXT>>

\* The ids callers pass: ints around zero, a numeric str that formats like
\* an int id, a str that is no number, and None.
MovieIds ==
    {PyInt(n) : n \in (-1)..MaxId}
        \cup {PyStr(Digits(1)), PyStr(<<"a", "b", "c">>), PyNone}

Paths == {_poster_path(id) : id \in MovieIds} \cup {_fail_marker_path(id) : id \in MovieIds}

\* Threads that may call fetch_poster.
Threads == {"t1", "t2"}

\* retries, the default of fetch_poster's parameter.
Retries == 3

\* TMDB_API_KEY as os.getenv leaves it: None (unset), empty, or a key.
ApiKeys == {"None", "", "key"}

MetaAnswers == {"404", "500", "timeout", "nolocator", "ok"}

ImgAnswers == {"404", "500", "timeout", "ok"}

NoResult == [kind |-> "none", path |-> <<>>]

PathResult(path) == [kind |-> "path", path |-> path]

Raised == [kind |-> "OSError", path |-> <<>>]

VARIABLES
    TMDB_API_KEY,   \* the credential read at import
    disk,           \* poster_cache: path -> "absent" | "partial" | "complete"
    pc,             \* per thread: where its fetch_poster call stands
    movie_id,       \* per thread: the argument of its call
    attempt,        \* per thread: the loop variable of the retry loop
    result,         \* per thread: what the finished call gave its caller
    trace,          \* per thread: the operations the call has performed
    pre,            \* per thread: what earlier calls of this id had done
    hist,           \* per poster path: outcomes of finished calls, this process
    movies,         \* the item table: its title and movie_id columns
    similarity,     \* the similarity matrix, a sequence of rows
    rpc,            \* where the recommend call stands
    movie_title,    \* the argument of the recommend call
    top_n,          \* the argument of the recommend call
    movie_index,    \* matches[0], or -1 when no row has the title
    candidates,     \* scored[1 : top_n + 1], pairs <<idx, score>>
    recs,           \* the list recommend builds, pairs <<title, poster>>
    loaded,         \* the loaders whose lru_cache holds a result
    readable        \* the snapshot files that can be read and unpickled

fvars == <<TMDB_API_KEY, disk, pc, movie_id, attempt, result, trace, pre, hist>>

cvars == <<movies, similarity>>

rvars == <<rpc, movie_title, top_n, movie_index, candidates, recs>>

lvars == <<loaded, readable>>

vars == <<fvars, cvars, rvars, lvars>>

\* os.path.exists
Exists(path) == disk[path] # "absent"

_has_fail_marker(id) == Exists(_fail_marker_path(id))

HasKey == TMDB_API_KEY \notin {"None", ""}

Idle(t) == pc[t] \in {"idle", "done"}

\* What a call writes in its trace for a request: "error" stands for every
\* RequestException, raised by requests.get or by raise_for_status.
NetEvents == {"meta:404", "meta:error", "meta:nolocator", "meta:ok",
              "img:404", "img:error", "img:ok"}

TransientEvents == {"meta:error", "img:error"}

PermanentEvents == {"meta:404", "meta:nolocator", "img:404"}

Count(seq, S) == Cardinality({i \in 1..Len(seq) : seq[i] \in S})

\* Network requests the call of thread t has performed.
Requests(t) == Count(trace[t], NetEvents)

\* Attempts of the retry loop the call of thread t has started.
Attempts(t) == Count(trace[t], {"meta:404", "meta:error", "meta:nolocator", "meta:ok"})

Sleeps(t) == Count(trace[t], {"sleep"})

\* Rows of the item table.
NRows == 3

\* Similarity scores are 0..MaxScore.
MaxScore == 1

\* Largest top_n a caller passes.
MaxTopN == 3

Titles == {"A", "B"}

\* The title column: two titles by turns, so that a title names several rows.
TitleColumn(k) == [i \in 1..NRows |-> IF (i + k) % 2 = 1 THEN "A" ELSE "B"]

\* The movie_id column: a valid id, an absent one, an invalid one, by turns.
IdColumn == [i \in 1..NRows |->
                CASE i % 3 = 1 -> PyInt(1)
                  [] i % 3 = 2 -> PyNone
                  [] OTHER -> PyInt(0)]

\* The matrix whose row i is v turned i places: every vector is the row of
\* every index in one matrix of the family, the diagonal being v[1] throughout.
Circulant(v) == [i \in 1..NRows |-> [j \in 1..NRows |-> v[((j - i + NRows) % NRows) + 1]]]

Front(seq) == SubSeq(seq, 1, Len(seq) - 1)

Last(seq) == seq[Len(seq)]

\* list(enumerate(distances)): pairs <<idx, score>>, idx from 0.
Enumerate(distances) == [i \in 1..Len(distances) |-> <<i - 1, distances[i]>>]

\* A placement before the entries of equal score: ties come out reversed.
InsertDescendingBeforeEqual(sorted, e) ==
    LET k == Cardinality({i \in 1..Len(sorted) : sorted[i][2] > e[2]})
    IN  SubSeq(sorted, 1, k) \o <<e>> \o SubSeq(sorted, k + 1, Len(sorted))

\* e put into a list sorted by falling score, behind every entry whose score
\* is not smaller: entries of equal score keep the order they came in.
InsertDescending(sorted, e) ==
    LET k == Cardinality({i \in 1..Len(sorted) : sorted[i][2] >= e[2]})
    IN  SubSeq(sorted, 1, k) \o <<e>> \o SubSeq(sorted, k + 1, Len(sorted))

RECURSIVE SortedByScoreReverse(_)
\* sorted(pairs, key=lambda x: x[1], reverse=True): stable.
SortedByScoreReverse(pairs) ==
    IF pairs = <<>> THEN <<>>
    ELSE InsertDescending(SortedByScoreReverse(Front(pairs)), Last(pairs))

\* seq[lo : hi] for 0 <= lo and 0 <= hi.
Slice(seq, lo, hi) ==
    LET h == IF hi > Len(seq) THEN Len(seq) ELSE hi
    IN  IF lo >= h THEN <<>> ELSE SubSeq(seq, lo + 1, h)

\* A selection that keeps the first ranked entry.
CandidatesKeepingFirst(scored, n) == Slice(scored, 0, n + 1)

\* candidates = scored[1 : top_n + 1]
Candidates(scored, n) == Slice(scored, 1, n + 1)

\* A lookup that falls back to the first row when no title is equal.
MatchesOrFirstRow(title) ==
    IF \A i \in 1..Len(movies.title) : movies.title[i] # title
    THEN {0}
    ELSE {i - 1 : i \in {k \in 1..Len(movies.title) : movies.title[k] = title}}

\* movies.index[movies["title"] == movie_title].tolist(), indices from 0.
Matches(title) == {i \in 0..(Len(movies.title) - 1) : movies.title[i + 1] = title}

Min(S) == CHOOSE x \in S : \A y \in S : x <= y

InitFetch ==
    /\ TMDB_API_KEY \in ApiKeys
    /\ disk = [p \in Paths |-> "absent"]
    /\ pc = [t \in Threads |-> "idle"]
    /\ movie_id = [t \in Threads |-> PyNone]
    /\ attempt = [t \in Threads |-> 0]
    /\ result = [t \in Threads |-> NoResult]
    /\ trace = [t \in Threads |-> <<>>]
    /\ pre = [t \in Threads |-> {}]
    /\ hist = [p \in Paths |-> {}]

InitRecommend ==
    /\ rpc = "idle"
    /\ movie_title = ""
    /\ top_n = 0
    /\ movie_index = -1
    /\ candidates = <<>>
    /\ recs = <<>>
    /\ loaded = {}

\* movies_dict.pkl and similarity.pkl, by the loader that reads each.
Snapshots == {"movies", "similarity"}

\* fetch_poster called directly: the catalog plays no part.
Init ==
    /\ InitFetch
    /\ InitRecommend
    /\ movies = [title |-> TitleColumn(0), movie_id |-> IdColumn]
    /\ similarity = Circulant([j \in 1..NRows |-> IF j = 1 THEN MaxScore ELSE 0])
    /\ readable = Snapshots

\* recommend called on a catalog drawn from the bounded family.
InitRec ==
    /\ InitFetch
    /\ InitRecommend
    /\ \E k \in 0..1 : movies = [title |-> TitleColumn(k), movie_id |-> IdColumn]
    /\ \E v \in [1..NRows -> 0..MaxScore] : similarity = Circulant(v)
    /\ readable = Snapshots

\* What a call that ends on the marker write adds to the history of its id:
\* that the provider answered 'not found', and that the marker was written.
MarkTags(t, written) ==
    IF trace[t] # <<>> /\ Last(trace[t]) \in {"meta:404", "img:404"}
    THEN {"notfound"} \cup (IF written THEN {"marked"} ELSE {})
    ELSE {}

\* The history is kept of the calls made of fetch_poster itself; the calls
\* recommend makes are seen in the list it returns.
Observed == rpc = "idle"

\* The call of thread t ends: its result goes to the caller, and its outcome
\* is added to what is known of the id's poster path.
Finish(t, res, ev, tags) ==
    /\ pc' = [pc EXCEPT ![t] = "done"]
    /\ result' = [result EXCEPT ![t] = res]
    /\ trace' = [trace EXCEPT ![t] = trace[t] \o ev]
    /\ hist' = IF Observed
               THEN [hist EXCEPT ![_poster_path(movie_id[t])] = @ \cup tags]
               ELSE hist

\* The call of thread t goes on at `next`.
Goto(t, next, ev) ==
    /\ pc' = [pc EXCEPT ![t] = next]
    /\ trace' = [trace EXCEPT ![t] = trace[t] \o ev]
    /\ UNCHANGED <<result, hist>>

\* What the directory holds for id when a call is entered.
EntryState(id) ==
    (IF Exists(_poster_path(id)) THEN {"blob"} ELSE {})
        \cup (IF _has_fail_marker(id) THEN {"marker"} ELSE {})

\* An entry that looks at the id before it looks at the credential.
CallValidityFirst(t, id) ==
    /\ Idle(t)
    /\ movie_id' = [movie_id EXCEPT ![t] = id]
    /\ attempt' = [attempt EXCEPT ![t] = 0]
    /\ trace' = [trace EXCEPT ![t] = <<>>]
    /\ pre' = [pre EXCEPT ![t] = hist[_poster_path(id)] \cup EntryState(id)]
    /\ result' = [result EXCEPT ![t] = NoResult]
    /\ pc' = [pc EXCEPT ![t] =
                 IF ~_is_valid_movie_id(id) THEN "mark"
                 ELSE IF ~HasKey THEN "done"
                 ELSE "cache"]
    /\ UNCHANGED <<TMDB_API_KEY, disk, hist>>

\* fetch_poster(id) is entered: the credential and the id are looked at.
Call(t, id) ==
    /\ Idle(t)
    /\ movie_id' = [movie_id EXCEPT ![t] = id]
    /\ attempt' = [attempt EXCEPT ![t] = 0]
    /\ trace' = [trace EXCEPT ![t] = <<>>]
    /\ pre' = [pre EXCEPT ![t] = hist[_poster_path(id)] \cup EntryState(id)]
    /\ result' = [result EXCEPT ![t] = NoResult]
    /\ pc' = [pc EXCEPT ![t] =
                 IF ~HasKey THEN "done"
                 ELSE IF ~_is_valid_movie_id(id) THEN "mark"
                 ELSE "cache"]
    /\ UNCHANGED <<TMDB_API_KEY, disk, hist>>

\* A cache check that looks at the marker's path.
CacheCheckWrongPath(t) ==
    /\ pc[t] = "cache"
    /\ IF Exists(_fail_marker_path(movie_id[t]))
       THEN Finish(t, PathResult(_poster_path(movie_id[t])), <<"hit">>, {"ref"})
       ELSE Goto(t, "failcheck", <<>>)
    /\ UNCHANGED <<TMDB_API_KEY, disk, movie_id, attempt, pre, cvars, rvars, lvars>>

\* if os.path.exists(cache_path): return cache_path
CacheCheck(t) ==
    /\ pc[t] = "cache"
    /\ IF Exists(_poster_path(movie_id[t]))
       THEN Finish(t, PathResult(_poster_path(movie_id[t])), <<"hit">>, {"ref"})
       ELSE Goto(t, "failcheck", <<>>)
    /\ UNCHANGED <<TMDB_API_KEY, disk, movie_id, attempt, pre, cvars, rvars, lvars>>

\* A fetch that never looks for the marker.
FailCheckSkipping(t) ==
    /\ pc[t] = "failcheck"
    /\ Goto(t, "meta", <<>>)
    /\ UNCHANGED <<TMDB_API_KEY, disk, movie_id, attempt, pre, cvars, rvars, lvars>>

\* if _has_fail_marker(movie_id): return None
FailCheck(t) ==
    /\ pc[t] = "failcheck"
    /\ IF _has_fail_marker(movie_id[t])
       THEN Finish(t, NoResult, <<"neg">>, {})
       ELSE Goto(t, "meta", <<>>)
    /\ UNCHANGED <<TMDB_API_KEY, disk, movie_id, attempt, pre, cvars, rvars, lvars>>

\* A handler that records a failure once the retries are used up.
OnRequestExceptionMarking(t, ev) ==
    IF attempt[t] < Retries - 1
    THEN /\ Goto(t, "meta", <<ev, "sleep">>)
         /\ attempt' = [attempt EXCEPT ![t] = @ + 1]
    ELSE /\ Goto(t, "mark", <<ev>>)
         /\ UNCHANGED attempt

\* A handler that gives up one attempt early.
OnRequestExceptionEarly(t, ev) ==
    IF attempt[t] < Retries - 2
    THEN /\ Goto(t, "meta", <<ev, "sleep">>)
         /\ attempt' = [attempt EXCEPT ![t] = @ + 1]
    ELSE /\ Finish(t, NoResult, <<ev>>, {"exhausted"})
         /\ UNCHANGED attempt

\* A handler that gives up one failure too late.
OnRequestExceptionOnceMore(t, ev) ==
    IF attempt[t] < Retries
    THEN /\ Goto(t, "meta", <<ev, "sleep">>)
         /\ attempt' = [attempt EXCEPT ![t] = @ + 1]
    ELSE /\ Finish(t, NoResult, <<ev>>, {"exhausted"})
         /\ UNCHANGED attempt

\* except requests.exceptions.RequestException: sleep and go round again,
\* or give up on the last attempt.
OnRequestException(t, ev) ==
    IF attempt[t] < Retries - 1
    THEN /\ Goto(t, "meta", <<ev, "sleep">>)
         /\ attempt' = [attempt EXCEPT ![t] = @ + 1]
    ELSE /\ Finish(t, NoResult, <<ev>>, {"exhausted"})
         /\ UNCHANGED attempt

\* The metadata request of one attempt, answered `ans`.
MetaRequest(t, ans) ==
    /\ pc[t] = "meta"
    /\ CASE ans \in {"404", "nolocator"} ->
                Goto(t, "mark", <<IF ans = "404" THEN "meta:404" ELSE "meta:nolocator">>)
                    /\ UNCHANGED attempt
         [] ans \in {"500", "timeout"} -> OnRequestException(t, "meta:error")
         [] OTHER -> Goto(t, "img", <<"meta:ok">>) /\ UNCHANGED attempt
    /\ UNCHANGED <<TMDB_API_KEY, disk, movie_id, pre, cvars, rvars, lvars>>

\* The image request of one attempt, answered `ans`.
ImgRequest(t, ans) ==
    /\ pc[t] = "img"
    /\ CASE ans = "404" -> Goto(t, "mark", <<"img:404">>) /\ UNCHANGED attempt
         [] ans \in {"500", "timeout"} -> OnRequestException(t, "img:error")
         [] OTHER -> Goto(t, "open", <<"img:ok">>) /\ UNCHANGED attempt
    /\ UNCHANGED <<TMDB_API_KEY, disk, movie_id, pre, cvars, rvars, lvars>>

\* open(cache_path, "xb"): an exclusive creation, which raises when the file
\* is there already.
OpenCacheExclusive(t, io) ==
    /\ pc[t] = "open"
    /\ IF Exists(_poster_path(movie_id[t]))
       THEN /\ Finish(t, Raised, <<"open:FileExistsError">>, {})
            /\ UNCHANGED disk
       ELSE IF io = "ok"
       THEN /\ disk' = [disk EXCEPT ![_poster_path(movie_id[t])] = "partial"]
            /\ Goto(t, "write", <<"open:ok">>)
       ELSE /\ Finish(t, Raised, <<"open:OSError">>, {})
            /\ UNCHANGED disk
    /\ UNCHANGED <<TMDB_API_KEY, movie_id, attempt, pre, cvars, rvars, lvars>>

\* open(cache_path, "wb"): creates or truncates the file, or raises OSError,
\* which no handler of fetch_poster catches.
OpenCache(t, io) ==
    /\ pc[t] = "open"
    /\ IF io = "ok"
       THEN /\ disk' = [disk EXCEPT ![_poster_path(movie_id[t])] = "partial"]
            /\ Goto(t, "write", <<"open:ok">>)
       ELSE /\ Finish(t, Raised, <<"open:OSError">>, {})
            /\ UNCHANGED disk
    /\ UNCHANGED <<TMDB_API_KEY, movie_id, attempt, pre, cvars, rvars, lvars>>

\* f.write(img_resp.content) and the close of the with block.
WriteCache(t, io) ==
    /\ pc[t] = "write"
    /\ IF io = "ok"
       THEN /\ disk' = [disk EXCEPT ![_poster_path(movie_id[t])] = "complete"]
            /\ Finish(t, PathResult(_poster_path(movie_id[t])), <<"write:ok">>, {"ref"})
       ELSE /\ Finish(t, Raised, <<"write:OSError">>, {})
            /\ UNCHANGED disk
    /\ UNCHANGED <<TMDB_API_KEY, movie_id, attempt, pre, cvars, rvars, lvars>>

\* A marker write whose OSError leaves fetch_poster.
WriteFailMarkerRaising(t, io) ==
    /\ pc[t] = "mark"
    /\ IF io = "ok"
       THEN /\ disk' = [disk EXCEPT ![_fail_marker_path(movie_id[t])] =
                           IF @ = "absent" THEN "complete" ELSE @]
            /\ Finish(t, NoResult, <<"mark:ok">>, MarkTags(t, TRUE))
       ELSE /\ Finish(t, Raised, <<"mark:OSError">>, MarkTags(t, FALSE))
            /\ UNCHANGED disk
    /\ UNCHANGED <<TMDB_API_KEY, movie_id, attempt, pre, cvars, rvars, lvars>>

\* _write_fail_marker(movie_id); return None.  An OSError is swallowed.
WriteFailMarker(t, io) ==
    /\ pc[t] = "mark"
    /\ IF io = "ok"
       THEN /\ disk' = [disk EXCEPT ![_fail_marker_path(movie_id[t])] =
                           IF @ = "absent" THEN "complete" ELSE @]
            /\ Finish(t, NoResult, <<"mark:ok">>, MarkTags(t, TRUE))
       ELSE /\ Finish(t, NoResult, <<"mark:OSError">>, MarkTags(t, FALSE))
            /\ UNCHANGED disk
    /\ UNCHANGED <<TMDB_API_KEY, movie_id, attempt, pre, cvars, rvars, lvars>>

\* The process ends and a new one imports the module: the credential is
\* read again, the directory is as it was left.
Restart ==
    /\ \A t \in Threads : Idle(t)
    /\ rpc \in {"idle", "returned", "raised", "load_error"}
    /\ (\E t \in Threads : pc[t] = "done") \/ rpc # "idle"
    /\ TMDB_API_KEY' \in ApiKeys
    /\ pc' = [t \in Threads |-> "idle"]
    /\ movie_id' = [t \in Threads |-> PyNone]
    /\ attempt' = [t \in Threads |-> 0]
    /\ result' = [t \in Threads |-> NoResult]
    /\ trace' = [t \in Threads |-> <<>>]
    /\ pre' = [t \in Threads |-> {}]
    /\ hist' = [p \in Paths |-> {}]
    /\ rpc' = "idle"
    /\ movie_title' = ""
    /\ top_n' = 0
    /\ movie_index' = -1
    /\ candidates' = <<>>
    /\ recs' = <<>>
    /\ loaded' = {}
    /\ UNCHANGED <<disk, cvars, readable>>

IoOutcomes == {"ok", "OSError"}

\* fetch_poster(id) called by a caller other than recommend.
DirectCall(t, id) == Call(t, id) /\ UNCHANGED <<cvars, rvars, lvars>>

\* One step of the call of thread t.
FetchStep(t) ==
    \/ CacheCheck(t)
    \/ FailCheck(t)
    \/ \E ans \in MetaAnswers : MetaRequest(t, ans)
    \/ \E ans \in ImgAnswers : ImgRequest(t, ans)
    \/ \E io \in IoOutcomes : OpenCache(t, io)
    \/ \E io \in IoOutcomes : WriteCache(t, io)
    \/ \E io \in IoOutcomes : WriteFailMarker(t, io)

\* Calls that do not overlap: one thread makes them all.
Next ==
    \/ \E id \in MovieIds : DirectCall("t1", id)
    \/ FetchStep("t1")
    \/ Restart

Spec == Init /\ [][Next]_vars

(***************************************************************************)
(* Properties of fetch_poster, checked under Spec.                         *)
(***************************************************************************)

\* An id is valid iff it coerces to an integer strictly greater than zero.
CoercesToPositiveInt(id) == IntOf(id).ok /\ IntOf(id).val > 0

MarkerExists(id) == disk[_fail_marker_path(id)] # "absent"

BlobExists(id) == disk[_poster_path(id)] # "absent"

Done(t) == pc[t] = "done"

ReturnedNone(t) == result[t] = NoResult

\* Every request of the call failed transiently.
TransientOnly(tr) ==
    /\ tr # <<>>
    /\ \A i \in 1..Len(tr) : tr[i] \in TransientEvents \cup {"sleep"}

\* Every request of the call was answered successfully.
HealthyOnly(tr) ==
    \A i \in 1..Len(tr) : tr[i] \in NetEvents => tr[i] \in {"meta:ok", "img:ok"}

\* The call ended on the marker write that follows a 'not found' answer.
EndedOnNotFound(tr) ==
    /\ Len(tr) >= 2
    /\ tr[Len(tr) - 1] \in {"meta:404", "img:404"}
    /\ Last(tr) \in {"mark:ok", "mark:OSError"}

\* C1: with a credential, a fail marker for a valid id appears only in a
\* step of a call whose last answer from the provider was 'not found' to the
\* metadata request, 'not found' to the image request, or metadata without a
\* locator; and no step of a call whose requests have all failed transiently
\* changes the directory.
C1_MarkerOnlyOnPermanentAnswer ==
    [][/\ \A id \in MovieIds :
            (HasKey /\ CoercesToPositiveInt(id) /\ ~MarkerExists(id) /\ MarkerExists(id)')
                => \E t \in Threads :
                       /\ Format(movie_id[t]) = Format(id)
                       /\ trace[t] # <<>>
                       /\ Last(trace[t]) \in PermanentEvents
       /\ \A t \in Threads :
            (trace'[t] # trace[t] /\ TransientOnly(trace'[t])) => disk' = disk]_vars

\* A call that met a transient failure, slept, was then told 'not found' for
\* the image and wrote the marker.
C1_Witness ==
    \E t \in Threads :
        /\ Done(t) /\ HasKey /\ CoercesToPositiveInt(movie_id[t])
        /\ Count(trace[t], {"sleep"}) >= 1
        /\ Len(trace[t]) >= 2
        /\ trace[t][Len(trace[t]) - 1] = "img:404"
        /\ Last(trace[t]) = "mark:ok"
        /\ MarkerExists(movie_id[t])

\* Transient failures throughout: exactly Retries attempts, None, and neither
\* a marker nor a blob.
ExhaustedLeavesAbsent(t) ==
    (Done(t) /\ TransientOnly(trace[t]))
        => /\ Attempts(t) = Retries
           /\ ReturnedNone(t)
           /\ ~MarkerExists(movie_id[t])
           /\ ~BlobExists(movie_id[t])

\* A later call of an id whose retries were used up, the record being still
\* absent and the provider now answering every request successfully.
LaterHealthyCall(t) ==
    /\ Done(t)
    /\ "exhausted" \in pre[t]
    /\ pre[t] \cap {"blob", "marker"} = {}
    /\ HealthyOnly(trace[t])

\* C2 as stated: after transient failures throughout, exactly Retries
\* attempts, None, no marker and no blob; and a later call against a healthy
\* provider performs the remote fetch, stores the blob and returns its path.
C2_AsStated ==
    \A t \in Threads :
        /\ ExhaustedLeavesAbsent(t)
        /\ LaterHealthyCall(t)
              => /\ Requests(t) = 2
                 /\ result[t] = PathResult(_poster_path(movie_id[t]))
                 /\ disk[_poster_path(movie_id[t])] = "complete"

\* C2 amended: as C2, the later call storing the blob and returning its path
\* provided the cache file can be opened and written; when open or write
\* raises OSError no path is returned and no complete blob is stored.
C2_RetryThenFetch ==
    \A t \in Threads :
        /\ ExhaustedLeavesAbsent(t)
        /\ LaterHealthyCall(t)
              => /\ Requests(t) = 2
                 /\ IF Last(trace[t]) = "write:ok"
                    THEN /\ result[t] = PathResult(_poster_path(movie_id[t]))
                         /\ disk[_poster_path(movie_id[t])] = "complete"
                    ELSE /\ Last(trace[t]) \in {"open:OSError", "write:OSError"}
                         /\ result[t].kind # "path"
                         /\ disk[_poster_path(movie_id[t])] # "complete"

\* A call that fetched and stored the blob of an id whose retries an earlier
\* call had used up.
C2_Witness ==
    \E t \in Threads :
        /\ LaterHealthyCall(t)
        /\ trace[t] = <<"meta:ok", "img:ok", "open:ok", "write:ok">>
        /\ result[t] = PathResult(_poster_path(movie_id[t]))

\* C3 as stated: a call told 'not found' returns None and leaves a marker;
\* every later call of the id returns None without a request.
C3_AsStated ==
    \A t \in Threads :
        /\ (Done(t) /\ EndedOnNotFound(trace[t]))
              => ReturnedNone(t) /\ MarkerExists(movie_id[t])
        /\ (Done(t) /\ "notfound" \in pre[t])
              => ReturnedNone(t) /\ Requests(t) = 0

\* C3 amended: a call told 'not found' returns None and leaves a marker unless
\* writing the marker fails with OSError, which is swallowed and leaves none;
\* once the marker was written, every later call of the id returns None
\* without a request.
C3_NotFoundIsCached ==
    \A t \in Threads :
        /\ (Done(t) /\ EndedOnNotFound(trace[t]))
              => /\ ReturnedNone(t)
                 /\ MarkerExists(movie_id[t]) <=> Last(trace[t]) = "mark:ok"
        /\ (Done(t) /\ "marked" \in pre[t])
              => ReturnedNone(t) /\ Requests(t) = 0 /\ trace[t] = <<"neg">>

\* A later call of an id that an earlier call had marked after 'not found'.
C3_Witness ==
    \E t \in Threads :
        Done(t) /\ "marked" \in pre[t] /\ trace[t] = <<"neg">> /\ ReturnedNone(t)

C5_NoCredentialNoEffect ==
    [][/\ ~HasKey' => \A t \in Threads :
                         /\ pc'[t] \in {"idle", "done"}
                         /\ trace'[t] = <<>>
                         /\ result'[t] = NoResult
       /\ (~HasKey /\ ~HasKey') => disk' = disk]_vars

\* Without a credential, a call of a cached id has returned None, the
\* directory holding a blob and a marker that an earlier process left.
C5_Witness ==
    /\ ~HasKey
    /\ Done("t1") /\ ReturnedNone("t1")
    /\ disk[_poster_path(movie_id["t1"])] = "complete"
    /\ \E id \in MovieIds : MarkerExists(id)

\* C6 as stated: with a credential, a call of an invalid id leaves a marker
\* at the path of the raw id, returns None and performs no request.
C6_AsStated ==
    \A t \in Threads :
        (Done(t) /\ HasKey /\ ~CoercesToPositiveInt(movie_id[t]))
            => /\ MarkerExists(movie_id[t])
               /\ ReturnedNone(t)
               /\ Requests(t) = 0

\* C6 amended: with a credential, a call of an invalid id writes a marker at
\* the path of the raw id unless the write fails with OSError, which is
\* swallowed; either way it returns None and performs no request.
C6_InvalidIdMarked ==
    \A t \in Threads :
        (Done(t) /\ HasKey /\ ~CoercesToPositiveInt(movie_id[t]))
            => /\ trace[t] \in {<<"mark:ok">>, <<"mark:OSError">>}
               /\ trace[t] = <<"mark:ok">> => MarkerExists(movie_id[t])
               /\ ReturnedNone(t)
               /\ Requests(t) = 0

\* A call of None has left the marker None.fail.
C6_Witness ==
    \E t \in Threads :
        /\ Done(t) /\ HasKey /\ movie_id[t] = PyNone
        /\ trace[t] = <<"mark:ok">>
        /\ disk[<<"N", "o", "n", "e", ".fail">>] = "complete"

\* C7: from an empty directory, calls that do not overlap never leave both a
\* blob and a marker for one id.
C7_BlobXorMarker ==
    \A id \in MovieIds : ~(BlobExists(id) /\ MarkerExists(id))

\* Calls have left a blob for one id and a marker for another.
C7_Witness ==
    /\ \E id \in MovieIds : disk[_poster_path(id)] = "complete"
    /\ \E id \in MovieIds : MarkerExists(id)
    /\ \A t \in Threads : Idle(t)

\* C8: a call whose cache write met a storage error returns None, having
\* written no marker.
C8_StorageErrorReturnsNone ==
    \A t \in Threads :
        (Done(t) /\ trace[t] # <<>> /\ Last(trace[t]) \in {"open:OSError", "write:OSError"})
            => /\ ReturnedNone(t)
               /\ ~MarkerExists(movie_id[t])

\* The call of t was entered for an id the provider had answered 'not found'
\* for, with neither marker nor poster in the directory: the marker of the
\* earlier call was not written.
AfterFailedMark(t) ==
    /\ Done(t)
    /\ HasKey
    /\ CoercesToPositiveInt(movie_id[t])
    /\ "notfound" \in pre[t]
    /\ pre[t] \cap {"blob", "marker"} = {}

\* C16: the marker write is best effort.  A step in which it fails with
\* OSError ends the call with the result None, not with the exception, and
\* changes no file; and a later call for an id whose marker was not written
\* asks the provider again.
C16_MarkerBestEffort ==
    [][\A t \in Threads :
          /\ (pc[t] = "mark" /\ pc'[t] = "done" /\ Last(trace'[t]) = "mark:OSError")
                => /\ result'[t] = NoResult
                   /\ disk' = disk
          /\ AfterFailedMark(t)' => Requests(t)' >= 1]_vars

\* After a marker write that failed, a later call for the id asked the
\* provider again, was answered 'not found' again and failed to write the
\* marker again.
C16_Witness ==
    /\ AfterFailedMark("t1")
    /\ Requests("t1") >= 1
    /\ EndedOnNotFound(trace["t1"])
    /\ Last(trace["t1"]) = "mark:OSError"
    /\ result["t1"] = NoResult
    /\ ~MarkerExists(movie_id["t1"])

\* A valid id as a number and as a string, and an invalid one.
CallIds == {PyInt(1), PyStr(Digits(1)), PyInt(0)}

\* The calls of one process, one after the other.  A call in progress goes
\* on: the thread runs, every request is answered or times out, and
\* time.sleep(1) returns.
NextCalls ==
    \/ \E id \in CallIds : DirectCall("t1", id)
    \/ FetchStep("t1")

SpecFair == Init /\ [][NextCalls]_vars /\ WF_vars(FetchStep("t1"))

InCall(t) == pc[t] \notin {"idle", "done"}

MetaEvents == {"meta:404", "meta:error", "meta:nolocator", "meta:ok"}

\* What the call of t has done so far keeps within the retry loop's bounds:
\* at most Retries attempts and twice as many requests; nothing is requested
\* and nothing slept after a permanent answer or a fetched image; every sleep
\* follows a transient failure and is followed by the next attempt, so
\* there are at most Retries - 1 of them and none ends the call.
WithinBounds(t) ==
    LET tr == trace[t]
    IN  /\ Attempts(t) <= Retries
        /\ Requests(t) <= 2 * Retries
        /\ Sleeps(t) <= Retries - 1
        /\ \A i \in 1..Len(tr) :
              /\ tr[i] \in PermanentEvents \cup {"img:ok"}
                    => \A j \in (i + 1)..Len(tr) : tr[j] \notin NetEvents \cup {"sleep"}
              /\ tr[i] = "sleep"
                    => /\ i > 1
                       /\ tr[i - 1] \in TransientEvents
                       /\ i < Len(tr) => tr[i + 1] \in MetaEvents
                       /\ i = Len(tr) => (pc[t] = "meta" /\ Attempts(t) < Retries)

\* C20: every call of fetch_poster ends, and until it does it keeps within
\* the bounds of the retry loop: at most Retries attempts and 2 * Retries
\* requests, no request after the first permanent answer or stored image, a
\* sleep only between two attempts, at most Retries - 1 times and never
\* after the last attempt.
C20_TerminatesWithinBounds ==
    /\ [](\A t \in Threads : WithinBounds(t))
    /\ \A t \in Threads : InCall(t) ~> Done(t)

\* A call ended after Retries attempts of two requests each, every image
\* request failing, with a sleep between the attempts.
C20_Witness ==
    /\ Done("t1")
    /\ Attempts("t1") = Retries
    /\ Requests("t1") = 2 * Retries
    /\ Sleeps("t1") = Retries - 1
    /\ Last(trace["t1"]) = "img:error"

RecIdle == rpc \in {"idle", "returned", "raised", "load_error"}

\* A loader without its cache: the file is read at every call.
LoadsUncached(name) == name \in readable

\* load_movies() / load_similarity() under lru_cache(maxsize=1): the cached
\* result if there is one, else the file is read; a read that raises caches
\* nothing.
Loads(name) == name \in loaded \/ name \in readable

\* A lookup whose IndexError leaves recommend.
LookupOutcomeRaising(index) ==
    IF index >= Len(similarity) THEN "raised" ELSE "loop"

\* try: distances = similarity[movie_index] / except Exception: return []
LookupOutcome(index) ==
    IF index >= Len(similarity) THEN "returned" ELSE "loop"

\* recommend(title, n) up to the candidates: the catalog is loaded, the title
\* is looked up, its similarity row is ranked and cut.
Recommend(title, n) ==
    /\ RecIdle
    /\ movie_title' = title
    /\ top_n' = n
    /\ recs' = <<>>
    /\ IF ~Loads("movies")
       THEN /\ rpc' = "load_error"
            /\ loaded' = loaded
            /\ movie_index' = -1
            /\ candidates' = <<>>
       ELSE IF ~Loads("similarity")
       THEN /\ rpc' = "load_error"
            /\ loaded' = loaded \cup {"movies"}
            /\ movie_index' = -1
            /\ candidates' = <<>>
       ELSE /\ loaded' = Snapshots
            /\ IF Matches(title) = {}
               THEN /\ movie_index' = -1
                    /\ candidates' = <<>>
                    /\ rpc' = "returned"
               ELSE /\ movie_index' = Min(Matches(title))
                    /\ rpc' = LookupOutcome(movie_index')
                    /\ candidates' =
                         IF movie_index' >= Len(similarity) THEN <<>>
                         ELSE Candidates(
                                  SortedByScoreReverse(Enumerate(similarity[movie_index' + 1])), n)
    /\ UNCHANGED <<fvars, cvars, readable>>

\* The title of the row of the next candidate.
NextRow == candidates[Len(recs) + 1][1] + 1

\* for idx, _score in candidates: the row is read and, unless its movie_id
\* is None, fetch_poster is entered; after the last candidate recs is returned.
RecommendLoop(t) ==
    /\ rpc = "loop"
    /\ IF Len(recs) = Len(candidates)
       THEN /\ rpc' = "returned"
            /\ UNCHANGED <<fvars, recs>>
       ELSE IF movies.movie_id[NextRow] = PyNone
       THEN /\ recs' = Append(recs, <<movies.title[NextRow], NoResult>>)
            /\ UNCHANGED <<fvars, rpc>>
       ELSE /\ Call(t, movies.movie_id[NextRow])
            /\ rpc' = "fetch"
            /\ UNCHANGED recs
    /\ UNCHANGED <<cvars, lvars, movie_title, top_n, movie_index, candidates>>

\* fetch_poster has ended: recs.append((title, poster)), or its exception
\* leaves recommend.
RecommendCollect(t) ==
    /\ rpc = "fetch"
    /\ pc[t] = "done"
    /\ IF result[t] = Raised
       THEN /\ rpc' = "raised"
            /\ UNCHANGED recs
       ELSE /\ recs' = Append(recs, <<movies.title[NextRow], result[t]>>)
            /\ rpc' = "loop"
    /\ UNCHANGED <<fvars, cvars, lvars, movie_title, top_n, movie_index, candidates>>

QueryTitles == Titles \cup {"Z"}

NextRec ==
    \/ \E title \in QueryTitles, n \in 0..MaxTopN : Recommend(title, n)
    \/ RecommendLoop("t1")
    \/ FetchStep("t1")
    \/ RecommendCollect("t1")

SpecRec == InitRec /\ [][NextRec]_vars

(***************************************************************************)
(* Properties of recommend, checked under SpecRec.                         *)
(***************************************************************************)

RowCount == Len(movies.title)

\* The row recommend returned in place i, and its score in the query's row.
ReturnedRow(i) == candidates[i][1]

ScoreToQuery(i) == similarity[movie_index + 1][ReturnedRow(i) + 1]

ReturnedFor(found) == rpc = "returned" /\ (movie_index >= 0) = found

\* C9: for a title of the catalog, recommend returns min(top_n, RowCount - 1)
\* entries, one per selected row and with that row's title, and their scores
\* to the query row do not rise along the list.
C9_CountAndOrder ==
    ReturnedFor(TRUE)
        => /\ Len(recs) = Min({top_n, RowCount - 1})
           /\ Len(recs) <= top_n
           /\ Len(recs) = Len(candidates)
           /\ \A i \in 1..Len(recs) :
                /\ ReturnedRow(i) \in 0..(RowCount - 1)
                /\ recs[i][1] = movies.title[ReturnedRow(i) + 1]
           /\ \A i \in 1..(Len(recs) - 1) : ScoreToQuery(i) >= ScoreToQuery(i + 1)

\* recommend was asked for more rows than there are and returned all but
\* one, of falling scores.
C9_Witness ==
    /\ ReturnedFor(TRUE)
    /\ top_n > RowCount - 1
    /\ Len(recs) = RowCount - 1
    /\ ScoreToQuery(1) > ScoreToQuery(Len(recs))

\* C10: for a title of the catalog, no returned entry is the row the title
\* was resolved to.
C10_NeverOwnRow ==
    ReturnedFor(TRUE) => \A i \in 1..Len(recs) : ReturnedRow(i) # movie_index

\* No row of the table carries the title.
NoRowTitled(title) == \A i \in 1..RowCount : movies.title[i] # title

\* C11: a call of recommend for a title no row carries returns the empty
\* list in that one step: it does not raise, it enters no fetch_poster (no
\* request is made) and every file of the cache directory is as it was.
C11_UnknownTitleIsEmpty ==
    [][(RecIdle /\ rpc' # "idle" /\ NoRowTitled(movie_title'))
          => /\ rpc' = "returned"
             /\ recs' = <<>>
             /\ candidates' = <<>>
             /\ disk' = disk
             /\ pc' = pc
             /\ trace' = trace]_vars

\* recommend returned nothing for an unknown title while the cache directory
\* already holds a poster from an earlier call.
C11_Witness ==
    /\ rpc = "returned"
    /\ NoRowTitled(movie_title)
    /\ recs = <<>>
    /\ \E p \in Paths : disk[p] = "complete"

\* The number of columns that precede column j in the query row's ranking:
\* those of a larger score, and those of the same score and a smaller index.
RankOf(j) ==
    LET row == similarity[movie_index + 1]
    IN  Cardinality({k \in 0..(Len(row) - 1) :
                        \/ row[k + 1] > row[j + 1]
                        \/ row[k + 1] = row[j + 1] /\ k < j})

ColumnOfRank(r) == CHOOSE j \in 0..(Len(similarity[movie_index + 1]) - 1) : RankOf(j) = r

\* C13: among the returned entries, those of equal score stand in the order
\* of their column indices, smaller first; and the returned titles are a
\* function of the table, the matrix, the title and top_n alone (the titles
\* of the columns ranked 1, 2, ... by score and then index), so a repeated
\* call returns the same titles in the same order.
C13_TiesByIndexAndRepeatable ==
    ReturnedFor(TRUE)
        => /\ \A i, j \in 1..Len(recs) :
                (i < j /\ ScoreToQuery(i) = ScoreToQuery(j))
                    => ReturnedRow(i) < ReturnedRow(j)
           /\ Len(recs) = Min({top_n, RowCount - 1})
           /\ \A i \in 1..Len(recs) :
                /\ ReturnedRow(i) = ColumnOfRank(i)
                /\ recs[i][1] = movies.title[ColumnOfRank(i) + 1]

\* recommend returned two entries of equal score to the query, next to each
\* other.
C13_Witness ==
    /\ ReturnedFor(TRUE)
    /\ Len(recs) >= 2
    /\ ScoreToQuery(1) = ScoreToQuery(2)
    /\ ReturnedRow(1) < ReturnedRow(2)

\* C14: recommend never raises over a poster: whatever fetch_poster met, the
\* call returns, and the returned list holds every selected row's title in
\* its ranked place, with a poster path or with None.
C14_NeverRaisesOverPoster ==
    /\ rpc # "raised"
    /\ ReturnedFor(TRUE)
          => /\ Len(recs) = Len(candidates)
             /\ \A i \in 1..Len(recs) :
                  /\ recs[i][1] = movies.title[ReturnedRow(i) + 1]
                  /\ recs[i][2].kind \in {"none", "path"}

(***************************************************************************)
(* recommend over the snapshot files: a file may be unreadable when its    *)
(* loader runs, and similarity.pkl may be older than the table and hold    *)
(* fewer rows.                                                             *)
(***************************************************************************)

\* A title column whose last row has a title of its own.
TitleColumnOwnLast == [i \in 1..NRows |-> IF i = NRows THEN "C" ELSE TitleColumn(0)[i]]

\* The square matrix of all rows but the last.
Truncated(m) == [i \in 1..(Len(m) - 1) |-> [j \in 1..(Len(m) - 1) |-> m[i][j]]]

InitCat ==
    /\ InitFetch
    /\ InitRecommend
    /\ movies = [title |-> TitleColumnOwnLast, movie_id |-> IdColumn]
    /\ \E m \in {Circulant([j \in 1..NRows |-> IF j = 1 THEN MaxScore ELSE 0])} :
            similarity \in {m, Truncated(m)}
    /\ readable \in SUBSET Snapshots

\* A snapshot file appears, disappears or is replaced by an unreadable one.
SnapshotChange ==
    /\ \E r \in SUBSET Snapshots : r # readable /\ readable' = r
    /\ UNCHANGED <<fvars, cvars, rvars, loaded>>

CatTitles == {"A", "C", "Z"}

NextCat ==
    \/ \E title \in CatTitles, n \in {1, MaxTopN} : Recommend(title, n)
    \/ RecommendLoop("t1")
    \/ FetchStep("t1")
    \/ RecommendCollect("t1")
    \/ SnapshotChange
    \/ Restart

SpecCat == InitCat /\ [][NextCat]_vars

\* The step is a call of recommend: it leaves a state between calls, not for
\* the state of a new process, and no file changes.
RecommendCalled == RecIdle /\ rpc' # "idle" /\ readable' = readable

\* The title was resolved to a row the matrix does not have.
LookupOutOfBounds == movie_index >= 0 /\ movie_index >= Len(similarity)

\* C12 as stated: a call whose row index is out of the matrix's bounds does
\* not return a list, it raises.
C12_AsStated == (rpc # "idle" /\ LookupOutOfBounds) => rpc # "returned"

\* C12, amended: a call whose row index is out of the matrix's bounds raises
\* nothing: in that one step it returns the empty list, having entered no
\* fetch_poster and changed no file; and a call that resolves to a row of the
\* matrix goes on to its candidates whatever the calls before it did.
C12_LookupFailureIsEmpty ==
    [][RecommendCalled
          => /\ LookupOutOfBounds'
                 => /\ rpc' = "returned"
                    /\ recs' = <<>>
                    /\ candidates' = <<>>
                    /\ disk' = disk
                    /\ pc' = pc
                    /\ trace' = trace
             /\ (movie_index' >= 0 /\ ~LookupOutOfBounds')
                 => /\ rpc' = "loop"
                    /\ Len(candidates') = Min({top_n', Len(similarity) - 1})]_vars

\* recommend was asked for rows like the last one, which the matrix lacks,
\* and returned the empty list.
C12_Witness ==
    /\ rpc = "returned"
    /\ movie_title = "C"
    /\ top_n >= 1
    /\ LookupOutOfBounds
    /\ recs = <<>>

\* A snapshot file the call has to read, having no cached result of it, and
\* cannot.
LoadMustFail == \E f \in Snapshots : f \notin loaded /\ f \notin readable

\* C17 as stated: once a call has failed on the load, every later call fails
\* on it too, until the process is started again.
C17_AsStated ==
    [][(RecommendCalled /\ rpc = "load_error") => rpc' = "load_error"]_vars

\* C17, amended: a failed load is not kept.  Every call reads the files it
\* has no cached result of: it fails on the load iff one of those cannot be
\* read, whatever the calls before it met; a result once cached stays cached,
\* and a call that finds both cached does not fail on the load even when the
\* files have become unreadable.
C17_FailureRetriedSuccessCached ==
    [][RecommendCalled
          => /\ (rpc' = "load_error") = LoadMustFail
             /\ loaded \subseteq loaded'
             /\ rpc' # "load_error" => loaded' = Snapshots
             /\ loaded = Snapshots => (rpc' # "load_error" /\ loaded' = loaded)]_vars

\* A call failed on the load of the matrix, the table being cached, and the
\* matrix file has become readable since.
C17_Witness ==
    /\ rpc = "load_error"
    /\ loaded = {"movies"}
    /\ readable = Snapshots


(***************************************************************************)
(* fetch_poster called from two threads at once for one id: the steps of   *)
(* the two calls interleave freely, nothing in the code orders them.       *)
(***************************************************************************)

\* The id the two threads ask for.
ConcIds == {PyInt(1)}

NextConc ==
    \/ \E t \in Threads, id \in ConcIds : DirectCall(t, id)
    \/ \E t \in Threads : FetchStep(t)

SpecConc == Init /\ [][NextConc]_vars

\* Both threads have ended a call that was entered with a credential while
\* the id had no file and no history, and whose requests, if it made any,
\* were all answered successfully.
BothAnsweredFresh ==
    \A t \in Threads :
        /\ Done(t)
        /\ HasKey
        /\ movie_id[t] \in ConcIds
        /\ pre[t] = {}
        /\ HealthyOnly(trace[t])

\* The call met an OSError when it opened or wrote the cache file.
StorageFailed(tr) ==
    \E i \in 1..Len(tr) : tr[i] \in {"open:OSError", "write:OSError"}

BothReturnedTheBlob ==
    \A t \in Threads :
        /\ result[t] = PathResult(_poster_path(movie_id[t]))
        /\ disk[_poster_path(movie_id[t])] = "complete"
        /\ ~MarkerExists(movie_id[t])

ReturnsPath(t) ==
    /\ pc[t] # "done"
    /\ pc'[t] = "done"
    /\ result'[t] = PathResult(_poster_path(movie_id[t]))

\* C18: under every interleaving the record of an id moves one way only: no
\* step creates a poster file for an id that has a marker, none creates a
\* marker for an id that has a poster file, none removes either; and no call
\* returns a path for an id that has a marker.
C18_RecordMonotonic ==
    [][/\ \A id \in MovieIds :
            /\ (MarkerExists(id) /\ ~BlobExists(id)) => ~BlobExists(id)'
            /\ (BlobExists(id) /\ ~MarkerExists(id)) => ~MarkerExists(id)'
            /\ BlobExists(id) => BlobExists(id)'
            /\ MarkerExists(id) => MarkerExists(id)'
       /\ \A t \in Threads : ReturnsPath(t) => ~MarkerExists(movie_id[t])']_vars

\* C19: whenever a call returns the poster's path, the file at that path is
\* complete at that moment: no path is returned for a file another call has
\* opened and not yet written, nor for one a failed write left truncated.
C19_ReturnedPathIsComplete ==
    [][\A t \in Threads :
          ReturnsPath(t) => disk'[_poster_path(movie_id[t])] = "complete"]_vars


====
